---------------------------- MODULE Spec2Model ----------------------------
(***************************************************************************)
(* A model of the CHIP-8 interpreter core of jmg-duarte/c8:                *)
(*   src/src/chip8/cpu.rs  (struct CPU, its opcode handlers, CPU::cycle)   *)
(*   src/src/chip8/ram.rs  (struct RAM, RAM::read, RAM::write)             *)
(*                                                                         *)
(* The machine is one record, `cpu`, holding the fields of struct CPU (the *)
(* RAM it owns included) and the panic, if any, that ended the run.  Rust  *)
(* arithmetic on u8/u16 panics on overflow when the build has overflow     *)
(* checks (the debug profile) and wraps when it has not (the release       *)
(* profile); `overflow_checks` is the build the program was compiled       *)
(* with.  Indexing an array out of its bounds panics in every build.       *)
(***************************************************************************)
EXTENDS Integers, Naturals, Sequences, FiniteSets, TLC

VARIABLES
    cpu,              \* struct CPU (cpu.rs:9-19), with ram.memory and the panic state
    overflow_checks,  \* TRUE: debug profile (overflow panics), FALSE: release (wraps)
    op,               \* history: the last operation executed
    prev,             \* history: `cpu` as it was before the last operation
    nops,             \* history: number of operations executed since construction
    ncalls,           \* history: number of 2addr instructions among them
    odd_target        \* history: some jump/call was handed an odd target so far

vars == <<cpu, overflow_checks, op, prev, nops, ncalls, odd_target>>

---------------------------------------------------------------------------
(* Program constants *)

N_VREGISTERS == 16
STACK_SIZE == 16
VF == 15
V0 == 0
MEM_SIZE == 4096
PROTECTED_LAST == 511      \* 0x1FF

U8  == 2^8                 \* number of values of a u8
U16 == 2^16                \* number of values of a u16

---------------------------------------------------------------------------
(* Bounds of the model *)

MaxSteps == 3              \* instructions executed per run of Spec
MaxStackSteps == 18        \* instructions executed per run of SpecStack

---------------------------------------------------------------------------
(* Bit operations on naturals, as Rust's &, |, ^, >>, << on unsigned ints *)

RECURSIVE And(_, _)
And(a, b) ==
    IF a = 0 \/ b = 0 THEN 0
    ELSE (a % 2) * (b % 2) + 2 * And(a \div 2, b \div 2)

RECURSIVE Or(_, _)
Or(a, b) ==
    IF a = 0 THEN b
    ELSE IF b = 0 THEN a
    ELSE (IF a % 2 = 1 \/ b % 2 = 1 THEN 1 ELSE 0) + 2 * Or(a \div 2, b \div 2)

RECURSIVE Xor(_, _)
Xor(a, b) ==
    IF a = 0 THEN b
    ELSE IF b = 0 THEN a
    ELSE ((a + b) % 2) + 2 * Xor(a \div 2, b \div 2)

Shr(a, n) == a \div (2^n)

\* (a & mask) >> lo for the mask of the n bits lo .. lo + n - 1
Bits(a, lo, n) == (a \div (2^lo)) % (2^n)

Shl8(a, n) == (a * 2^n) % U8

---------------------------------------------------------------------------
(* Panics *)

NoPanic == "none"
InvalidWrite == "invalid write"                      \* ram.rs:20
IndexOutOfBounds == "index out of bounds"            \* array indexing
AddOverflow == "attempt to add with overflow"        \* checked +, +=
SubOverflow == "attempt to subtract with overflow"   \* checked -, -=
UnknownInstruction == "unknown instruction"          \* cpu.rs:328
NotImplemented == "not implemented"                  \* unimplemented!()

Panic(c, msg) == [c EXCEPT !.panic = msg]

---------------------------------------------------------------------------
(* RAM (ram.rs) *)

\* memory: [u8; 4096], zero-filled by RAM::new, is held as the finite map of
\* its nonzero bytes: an address in 0 .. MEM_SIZE - 1 outside the map's
\* domain holds 0.
RAM_new == [a \in {} |-> 0]

\* RAM::read: the index is bounds-checked
RAM_read_ok(addr) == addr < MEM_SIZE

RAM_read(memory, addr) == IF addr \in DOMAIN memory THEN memory[addr] ELSE 0

\* memory[addr] = value
RAM_store(memory, addr, value) ==
    [a \in (IF value = 0 THEN DOMAIN memory \ {addr}
                         ELSE DOMAIN memory \cup {addr}) |->
        IF a = addr THEN value ELSE memory[a]]

\* mutant of RAM_write: the protected region ends one byte early (< for <=)
RAM_write_short_region(c, addr, value) ==
    IF addr < PROTECTED_LAST THEN Panic(c, InvalidWrite)
    ELSE IF addr >= MEM_SIZE THEN Panic(c, IndexOutOfBounds)
    ELSE [c EXCEPT !.ram = RAM_store(c.ram, addr, value)]

\* RAM::write on the machine c: the explicit panic, then the bounds check
RAM_write(c, addr, value) ==
    IF addr <= PROTECTED_LAST THEN Panic(c, InvalidWrite)
    ELSE IF addr >= MEM_SIZE THEN Panic(c, IndexOutOfBounds)
    ELSE [c EXCEPT !.ram = RAM_store(c.ram, addr, value)]

---------------------------------------------------------------------------
(* CPU (cpu.rs) *)

\* mutant of CPU_new: the program counter starts at the ROM load address
CPU_new_pc_at_rom ==
    [ stack           |-> [i \in 0 .. STACK_SIZE - 1 |-> 0],
      v_reg           |-> [i \in 0 .. N_VREGISTERS - 1 |-> 0],
      i_reg           |-> 0,
      delay_timer     |-> 0,
      sound_timer     |-> 0,
      program_counter |-> 512,
      stack_pointer   |-> 0,
      ram             |-> RAM_new,
      panic           |-> NoPanic ]

CPU_new ==
    [ stack           |-> [i \in 0 .. STACK_SIZE - 1 |-> 0],
      v_reg           |-> [i \in 0 .. N_VREGISTERS - 1 |-> 0],
      i_reg           |-> 0,
      delay_timer     |-> 0,
      sound_timer     |-> 0,
      program_counter |-> 0,
      stack_pointer   |-> 0,
      ram             |-> RAM_new,
      panic           |-> NoPanic ]

\* pc = stack[sp]; sp -= 1
ret_subroutine(c) ==
    IF c.stack_pointer >= STACK_SIZE THEN Panic(c, IndexOutOfBounds)
    ELSE LET c1 == [c EXCEPT !.program_counter = c.stack[c.stack_pointer]] IN
         IF c1.stack_pointer - 1 < 0
         THEN IF overflow_checks THEN Panic(c1, SubOverflow)
              ELSE [c1 EXCEPT !.stack_pointer = (c1.stack_pointer - 1) % U8]
         ELSE [c1 EXCEPT !.stack_pointer = c1.stack_pointer - 1]

jmp_addr(c, addr) == [c EXCEPT !.program_counter = addr]

\* sp += 1; stack[sp] = pc; pc = addr
call_subroutine(c, addr) ==
    IF c.stack_pointer + 1 >= U8 /\ overflow_checks THEN Panic(c, AddOverflow)
    ELSE LET c1 == [c EXCEPT !.stack_pointer = (c.stack_pointer + 1) % U8] IN
         IF c1.stack_pointer >= STACK_SIZE THEN Panic(c1, IndexOutOfBounds)
         ELSE [c1 EXCEPT !.stack[c1.stack_pointer] = c1.program_counter,
                         !.program_counter = addr]

\* mutant of skip: the program counter moves by one byte, not one instruction
skip_one_byte(c) ==
    IF c.program_counter + 1 >= U16 /\ overflow_checks THEN Panic(c, AddOverflow)
    ELSE [c EXCEPT !.program_counter = (c.program_counter + 1) % U16]

\* program_counter += 2
skip(c) ==
    IF c.program_counter + 2 >= U16 /\ overflow_checks THEN Panic(c, AddOverflow)
    ELSE [c EXCEPT !.program_counter = (c.program_counter + 2) % U16]

skip_eq_value(c, x_idx, value) ==
    IF c.v_reg[x_idx] = value THEN skip(c) ELSE c

skip_neq_value(c, x_idx, value) ==
    IF c.v_reg[x_idx] # value THEN skip(c) ELSE c

skip_eq_xy(c, x_idx, y_idx) ==
    IF c.v_reg[x_idx] = c.v_reg[y_idx] THEN skip(c) ELSE c

set_x_value(c, x_idx, value) == [c EXCEPT !.v_reg[x_idx] = value]

\* v_reg[x] += value
add_x_value(c, x_idx, value) ==
    LET sum == c.v_reg[x_idx] + value IN
    IF sum >= U8 /\ overflow_checks THEN Panic(c, AddOverflow)
    ELSE [c EXCEPT !.v_reg[x_idx] = sum % U8]

store_xy(c, x_idx, y_idx) == [c EXCEPT !.v_reg[x_idx] = c.v_reg[y_idx]]

or_xy(c, x_idx, y_idx) ==
    [c EXCEPT !.v_reg[x_idx] = Or(c.v_reg[x_idx], c.v_reg[y_idx])]

and_xy(c, x_idx, y_idx) ==
    [c EXCEPT !.v_reg[x_idx] = And(c.v_reg[x_idx], c.v_reg[y_idx])]

xor_xy(c, x_idx, y_idx) ==
    [c EXCEPT !.v_reg[x_idx] = Xor(c.v_reg[x_idx], c.v_reg[y_idx])]

\* mutant of add_xy: the sum is truncated to 8 bits before the carry is taken
add_xy_carry_after_truncation(c, x_idx, y_idx) ==
    LET v  == (c.v_reg[x_idx] + c.v_reg[y_idx]) % U8
        c1 == [c EXCEPT !.v_reg[VF] = IF Shr(v, 8) # 0 THEN 1 ELSE 0]
    IN  [c1 EXCEPT !.v_reg[x_idx] = Bits(v, 0, 8)]

\* v: u16 = Vx + Vy; VF = (v >> 8 != 0); Vx = v & 0x00FF
add_xy(c, x_idx, y_idx) ==
    LET v  == c.v_reg[x_idx] + c.v_reg[y_idx]
        c1 == [c EXCEPT !.v_reg[VF] = IF Shr(v, 8) # 0 THEN 1 ELSE 0]
    IN  [c1 EXCEPT !.v_reg[x_idx] = Bits(v, 0, 8)]

\* VF = (Vx > Vy); Vx -= Vy
sub_xy(c, x_idx, y_idx) ==
    LET c1 == [c EXCEPT !.v_reg[VF] =
                   IF c.v_reg[x_idx] > c.v_reg[y_idx] THEN 1 ELSE 0]
        d  == c1.v_reg[x_idx] - c1.v_reg[y_idx]
    IN  IF d < 0 /\ overflow_checks THEN Panic(c1, SubOverflow)
        ELSE [c1 EXCEPT !.v_reg[x_idx] = d % U8]

\* mutant of shr_x: the flag is taken from the shifted value (after, not before)
shr_x_flag_after_shift(c, x_idx) ==
    LET c1 == [c EXCEPT !.v_reg[x_idx] = Shr(c.v_reg[x_idx], 1)]
    IN  [c1 EXCEPT !.v_reg[VF] = Bits(c1.v_reg[x_idx], 0, 1)]

\* VF = Vx & 1; Vx >>= 1
shr_x(c, x_idx) ==
    LET c1 == [c EXCEPT !.v_reg[VF] = Bits(c.v_reg[x_idx], 0, 1)]
    IN  [c1 EXCEPT !.v_reg[x_idx] = Shr(c1.v_reg[x_idx], 1)]

\* VF = (Vy > Vx); Vx = Vy - Vx
subn_xy(c, x_idx, y_idx) ==
    LET c1 == [c EXCEPT !.v_reg[VF] =
                   IF c.v_reg[y_idx] > c.v_reg[x_idx] THEN 1 ELSE 0]
        d  == c1.v_reg[y_idx] - c1.v_reg[x_idx]
    IN  IF d < 0 /\ overflow_checks THEN Panic(c1, SubOverflow)
        ELSE [c1 EXCEPT !.v_reg[x_idx] = d % U8]

\* VF = Vx >> 7; Vx <<= 1
shl_x(c, x_idx) ==
    LET c1 == [c EXCEPT !.v_reg[VF] = Shr(c.v_reg[x_idx], 7)]
    IN  [c1 EXCEPT !.v_reg[x_idx] = Shl8(c1.v_reg[x_idx], 1)]

skip_neq_xy(c, x_idx, y_idx) ==
    IF c.v_reg[x_idx] # c.v_reg[y_idx] THEN skip(c) ELSE c

set_i(c, addr) == [c EXCEPT !.i_reg = addr]

\* pc = addr + V0 as u16
jmp_addr_offset(c, addr) ==
    LET sum == addr + c.v_reg[V0] IN
    IF sum >= U16 /\ overflow_checks THEN Panic(c, AddOverflow)
    ELSE [c EXCEPT !.program_counter = sum % U16]

\* r_num is the byte the random generator returns
rnd_and(c, x_idx, value, r_num) == [c EXCEPT !.v_reg[x_idx] = And(r_num, value)]

\* the loop body is a comment: nothing is read, drawn or flagged
draw(c, x_idx, y_idx, n) == c

skip_key_pressed(c, x_idx) == Panic(c, NotImplemented)

skip_key_not_pressed(c, x_idx) == Panic(c, NotImplemented)

read_delay_timer(c, x_idx) == [c EXCEPT !.v_reg[x_idx] = c.delay_timer]

wait_keypress(c, x_idx) == Panic(c, NotImplemented)

set_delay_timer(c, x_idx) == [c EXCEPT !.delay_timer = c.v_reg[x_idx]]

set_sound_timer(c, x_idx) == [c EXCEPT !.sound_timer = c.v_reg[x_idx]]

\* i_reg += Vx as u16
add_i(c, x_idx) ==
    LET sum == c.i_reg + c.v_reg[x_idx] IN
    IF sum >= U16 /\ overflow_checks THEN Panic(c, AddOverflow)
    ELSE [c EXCEPT !.i_reg = sum % U16]

set_i_digit(c, x_idx) == Panic(c, NotImplemented)

store_bcd(c, x_idx) == Panic(c, NotImplemented)

\* for idx in 0..=x: ram.write(I + idx, V[idx]); stops at the first panic
RECURSIVE store_registers_from(_, _, _)
store_registers_from(c, idx, x_idx) ==
    IF idx > x_idx \/ c.panic # NoPanic THEN c
    ELSE store_registers_from(RAM_write(c, c.i_reg + idx, c.v_reg[idx]),
                              idx + 1, x_idx)

store_registers(c, x_idx) == store_registers_from(c, 0, x_idx)

\* for idx in 0..=x: V[idx] = ram.read(I + idx); stops at the first panic
RECURSIVE read_registers_from(_, _, _)
read_registers_from(c, idx, x_idx) ==
    IF idx > x_idx \/ c.panic # NoPanic THEN c
    ELSE IF ~RAM_read_ok(c.i_reg + idx) THEN Panic(c, IndexOutOfBounds)
    ELSE read_registers_from(
             [c EXCEPT !.v_reg[idx] = RAM_read(c.ram, c.i_reg + idx)],
             idx + 1, x_idx)

\* mutant of read_registers: the range 0..x in place of 0..=x
read_registers_exclusive(c, x_idx) == read_registers_from(c, 0, x_idx - 1)

read_registers(c, x_idx) == read_registers_from(c, 0, x_idx)

---------------------------------------------------------------------------
(* CPU::cycle (cpu.rs:285-330): the four nibbles of the opcode and the match *)

op_1(opcode) == Bits(opcode, 12, 4)     \* (opcode & 0xF000) >> 12
op_2(opcode) == Bits(opcode, 8, 4)      \* (opcode & 0x0F00) >> 8
op_3(opcode) == Bits(opcode, 4, 4)      \* (opcode & 0x00F0) >> 4
\* mutant of op_4: the mask 0x0007 in place of 0x000F
op_4_three_bits(opcode) == Bits(opcode, 0, 3)

op_4(opcode) == Bits(opcode, 0, 4)      \* opcode & 0x000F

\* the address the match arms hand to the handlers: op_2 | op_3 | op_4
addr_arg(opcode) == Or(Or(op_2(opcode), op_3(opcode)), op_4(opcode))

\* the byte the match arms hand to the handlers: (op_3 | op_4) as u8
byte_arg(opcode) == Or(op_3(opcode), op_4(opcode)) % U8

cycle(c, opcode, r_num) ==
    LET o1 == op_1(opcode)
        o2 == op_2(opcode)
        o3 == op_3(opcode)
        o4 == op_4(opcode)
    IN  CASE o1 = 0 /\ o2 = 0 /\ o3 = 14 /\ o4 = 0  -> c
          [] o1 = 0 /\ o2 = 0 /\ o3 = 14 /\ o4 = 14 -> ret_subroutine(c)
          [] o1 = 1  -> jmp_addr(c, addr_arg(opcode))
          [] o1 = 2  -> call_subroutine(c, addr_arg(opcode))
          [] o1 = 3  -> skip_eq_value(c, o2, byte_arg(opcode))
          [] o1 = 4  -> skip_neq_value(c, o2, byte_arg(opcode))
          [] o1 = 5 /\ o4 = 0  -> skip_eq_xy(c, o2, o3)
          [] o1 = 6  -> set_x_value(c, o2, byte_arg(opcode))
          [] o1 = 7  -> add_x_value(c, o2, byte_arg(opcode))
          [] o1 = 8 /\ o4 = 0  -> store_xy(c, o2, o3)
          [] o1 = 8 /\ o4 = 1  -> or_xy(c, o2, o3)
          [] o1 = 8 /\ o4 = 2  -> and_xy(c, o2, o3)
          [] o1 = 8 /\ o4 = 3  -> xor_xy(c, o2, o3)
          [] o1 = 8 /\ o4 = 4  -> add_xy(c, o2, o3)
          [] o1 = 8 /\ o4 = 5  -> sub_xy(c, o2, o3)
          [] o1 = 8 /\ o4 = 6  -> shr_x(c, o2)
          [] o1 = 8 /\ o4 = 7  -> subn_xy(c, o2, o3)
          [] o1 = 8 /\ o4 = 14 -> shl_x(c, o2)
          [] o1 = 9 /\ o4 = 0  -> skip_neq_xy(c, o2, o3)
          [] o1 = 10 -> set_i(c, addr_arg(opcode))
          [] o1 = 11 -> jmp_addr_offset(c, addr_arg(opcode))
          [] o1 = 12 -> rnd_and(c, o2, byte_arg(opcode), r_num)
          [] o1 = 13 -> draw(c, o2, o3, o4)
          [] o1 = 14 /\ o3 = 9 /\ o4 = 14  -> skip_key_pressed(c, o2)
          [] o1 = 14 /\ o3 = 10 /\ o4 = 1  -> skip_key_not_pressed(c, o2)
          [] o1 = 15 /\ o3 = 0 /\ o4 = 7   -> read_delay_timer(c, o2)
          [] o1 = 15 /\ o3 = 0 /\ o4 = 10  -> wait_keypress(c, o2)
          [] o1 = 15 /\ o3 = 1 /\ o4 = 5   -> set_delay_timer(c, o2)
          [] o1 = 15 /\ o3 = 1 /\ o4 = 8   -> set_sound_timer(c, o2)
          [] o1 = 15 /\ o3 = 1 /\ o4 = 14  -> add_i(c, o2)
          [] o1 = 15 /\ o3 = 2 /\ o4 = 9   -> set_i_digit(c, o2)
          [] o1 = 15 /\ o3 = 3 /\ o4 = 3   -> store_bcd(c, o2)
          [] o1 = 15 /\ o3 = 5 /\ o4 = 5   -> store_registers(c, o2)
          [] o1 = 15 /\ o3 = 6 /\ o4 = 5   -> read_registers(c, o2)
          [] OTHER -> Panic(c, UnknownInstruction)

---------------------------------------------------------------------------
(* Inputs of the model *)

\* The opcode words the runs of Spec are made of: every family of the match,
\* words whose immediates have several nonzero nibbles, and unknown words.
Opcodes ==
    { 224, 238,                 \* 00E0, 00EE
      4097, 4608,               \* 1001, 1200
      8704,                     \* 2200
      12288, 12305,             \* 3000, 3011
      16384,                    \* 4000
      20496,                    \* 5010
      24594, 24831, 28673,      \* 6012, 60FF, 7001
      32788, 32789,             \* 8014, 8015
      36880,                    \* 9010
      41251, 45058,             \* A123, B002
      49407,                    \* C0FF
      53249,                    \* D001
      57502,                    \* E09E
      61461, 61470, 61525,      \* F015, F01E, F055
      0 }                       \* 0000: no arm matches

\* The bytes the random generator is taken to return
RandomBytes == {0, 165, 255}

\* The opcode words the runs of SpecStack are made of
StackOpcodes == { 8704, 238, 4608 }    \* 2200, 00EE, 1200

---------------------------------------------------------------------------
(* Actions.  A panic ends the run: nothing executes after it. *)

NewOp == [name |-> "new", arg |-> 0, val |-> 0]

\* one call of CPU::cycle(opcode); r_num is the generator's byte
CycleStep(opcode, r_num) ==
    /\ cpu.panic = NoPanic
    /\ cpu' = cycle(cpu, opcode, r_num)
    /\ op' = [name |-> "cycle", arg |-> opcode, val |-> r_num]
    /\ prev' = cpu
    /\ nops' = nops + 1
    /\ ncalls' = IF op_1(opcode) = 2 THEN ncalls + 1 ELSE ncalls
    /\ odd_target' =
          \/ odd_target
          \/ op_1(opcode) \in {1, 2} /\ addr_arg(opcode) % 2 = 1
          \/ op_1(opcode) = 11 /\ (addr_arg(opcode) + cpu.v_reg[V0]) % 2 = 1
    /\ UNCHANGED overflow_checks

Init ==
    /\ cpu = CPU_new
    /\ overflow_checks \in BOOLEAN
    /\ op = NewOp
    /\ prev = CPU_new
    /\ nops = 0
    /\ ncalls = 0
    /\ odd_target = FALSE

Next ==
    \E opcode \in Opcodes :
        \E r_num \in (IF op_1(opcode) = 12 THEN RandomBytes ELSE {0}) :
            /\ nops < MaxSteps
            /\ CycleStep(opcode, r_num)

Spec == Init /\ [][Next]_vars

NextStack ==
    \E opcode \in StackOpcodes :
        /\ nops < MaxStackSteps
        /\ CycleStep(opcode, 0)

SpecStack == Init /\ [][NextStack]_vars

---------------------------------------------------------------------------
(* Arithmetic instructions on drawn register files.  Every register file   *)
(* is one the program can build (6xkk, 7xkk and 8xy4 reach every byte in   *)
(* every register); one instruction is then executed on it.                *)

\* byte values V0, V1 and VF are drawn from
ByteSample == {0, 1, 5, 10, 250, 255}

\* the other registers hold fixed, pairwise different, nonzero bytes
DrawnRegisters(v0, v1, vf) ==
    [i \in 0 .. N_VREGISTERS - 1 |->
        CASE i = V0 -> v0
          [] i = 1  -> v1
          [] i = VF -> vf
          [] OTHER  -> (i * 17) % U8]

Op7xkk(x, kk) == 28672 + 256 * x + kk           \* 0x7000 | x << 8 | kk
Op8xyn(x, y, n) == 32768 + 256 * x + 16 * y + n  \* 0x8000 | x << 8 | y << 4 | n

AluOpcodes ==
    { Op7xkk(x, kk) : x \in 0 .. N_VREGISTERS - 1, kk \in {0, 1, 6, 15, 18, 255} }
    \cup { Op8xyn(x, y, 4) : x \in 0 .. N_VREGISTERS - 1, y \in 0 .. N_VREGISTERS - 1 }

InitAlu ==
    /\ \E v0 \in ByteSample, v1 \in ByteSample, vf \in ByteSample :
           cpu = [CPU_new EXCEPT !.v_reg = DrawnRegisters(v0, v1, vf)]
    /\ overflow_checks \in BOOLEAN
    /\ op = NewOp
    /\ prev = cpu
    /\ nops = 0
    /\ ncalls = 0
    /\ odd_target = FALSE

NextAlu ==
    \E opcode \in AluOpcodes :
        /\ nops = 0
        /\ CycleStep(opcode, 0)

SpecAlu == InitAlu /\ [][NextAlu]_vars

---------------------------------------------------------------------------
(* RAM on its own: RAM::new, then reads and writes (ram.rs) *)

MaxRamSteps == 3           \* reads and writes per run of SpecRam

\* addresses around the two limits of RAM::write, and in the middle
RamAddrs == {0, PROTECTED_LAST - 1, PROTECTED_LAST, PROTECTED_LAST + 1,
             PROTECTED_LAST + 2, MEM_SIZE - 1, MEM_SIZE, MEM_SIZE + 1}

RamBytes == {0, 7, 255}

RamWrite(addr, value) ==
    /\ cpu.panic = NoPanic
    /\ nops < MaxRamSteps
    /\ cpu' = RAM_write(cpu, addr, value)
    /\ op' = [name |-> "write", arg |-> addr, val |-> value]
    /\ prev' = cpu
    /\ nops' = nops + 1
    /\ UNCHANGED <<overflow_checks, ncalls, odd_target>>

\* op.val is the byte returned, when one is
RamRead(addr) ==
    /\ cpu.panic = NoPanic
    /\ nops < MaxRamSteps
    /\ cpu' = IF RAM_read_ok(addr) THEN cpu ELSE Panic(cpu, IndexOutOfBounds)
    /\ op' = [name |-> "read", arg |-> addr,
              val |-> IF RAM_read_ok(addr) THEN RAM_read(cpu.ram, addr) ELSE 0]
    /\ prev' = cpu
    /\ nops' = nops + 1
    /\ UNCHANGED <<overflow_checks, ncalls, odd_target>>

NextRam ==
    \/ \E addr \in RamAddrs, value \in RamBytes : RamWrite(addr, value)
    \/ \E addr \in RamAddrs : RamRead(addr)

SpecRam == Init /\ [][NextRam]_vars

---------------------------------------------------------------------------
(* What the claims speak of *)

\* o is an executed instruction whose first nibble is n1
IsInstr(o, n1) == o.name = "cycle" /\ op_1(o.arg) = n1

IsCall(o) == IsInstr(o, 2)                       \* 2addr
IsRet(o) == o.name = "cycle" /\ o.arg = 238      \* 00EE

\* the immediates of an instruction word: its low 12 bits, its low 8 bits
Addr12(w) == Bits(w, 0, 12)
Byte8(w) == Bits(w, 0, 8)

\* the spec's error kinds, as the panics of the code
ProtectedRegionViolation(c) == c.panic = InvalidWrite
OutOfBounds(c) == c.panic = IndexOutOfBounds
StackOverflow(c) == c.panic = IndexOutOfBounds
StackUnderflow(c) == c.panic = SubOverflow

---------------------------------------------------------------------------
(* C1: from any state whose call stack is not full (fewer than STACK_SIZE  *)
(* return addresses are live), a call (2addr) executes, and a return       *)
(* (00EE) executed right after it restores the program counter and the     *)
(* stack pointer to their values before the call.                          *)
C1_CallReturnBalance ==
    [][ /\ (IsCall(op') /\ cpu.stack_pointer < STACK_SIZE)
              => cpu'.panic = NoPanic
        /\ (IsCall(op) /\ prev.stack_pointer < STACK_SIZE /\ IsRet(op'))
              => /\ cpu'.panic = NoPanic
                 /\ cpu'.program_counter = prev.program_counter
                 /\ cpu'.stack_pointer = prev.stack_pointer ]_vars

(* C2: from a fresh CPU, 16 nested calls (no instruction but 2addr         *)
(* executed) all succeed and the 17th fails with StackOverflow.            *)
C2_SixteenNestedCalls ==
    (nops = ncalls) =>
        /\ (ncalls <= 16) => cpu.panic = NoPanic
        /\ (ncalls = 17) => StackOverflow(cpu)

(* C3: a return (00EE) executed with the stack pointer at its empty value  *)
(* fails with StackUnderflow, loads no program counter from the stack and  *)
(* leaves the stack pointer at empty (no wrap to 255).                     *)
C3_ReturnOnEmptyStack ==
    (IsRet(op) /\ prev.stack_pointer = 0) =>
        /\ StackUnderflow(cpu)
        /\ cpu.program_counter = prev.program_counter
        /\ cpu.stack_pointer = 0

(* C4: write(a, b) fails with ProtectedRegionViolation and leaves memory   *)
(* unchanged when a < 0x200, fails with OutOfBounds when a >= 4096, and    *)
(* otherwise succeeds, read(a) then giving b and every other byte being    *)
(* unchanged.                                                              *)
C4_WriteProtection ==
    (op.name = "write") =>
        LET a == op.arg
            b == op.val
        IN  /\ (a < 512) =>
                   /\ ProtectedRegionViolation(cpu)
                   /\ \A o \in 0 .. 4095 :
                          RAM_read(cpu.ram, o) = RAM_read(prev.ram, o)
            /\ (a >= 4096) => OutOfBounds(cpu)
            /\ (a >= 512 /\ a <= 4095) =>
                   /\ cpu.panic = NoPanic
                   /\ RAM_read_ok(a) /\ RAM_read(cpu.ram, a) = b
                   /\ \A o \in (0 .. 4095) \ {a} :
                          RAM_read(cpu.ram, o) = RAM_read(prev.ram, o)

\* a write in the writable region went through, next to a byte written before
C4_Witness ==
    /\ op.name = "write"
    /\ op.arg >= 512 /\ op.arg <= 4095
    /\ op.val # 0
    /\ cpu.panic = NoPanic
    /\ RAM_read(cpu.ram, op.arg) = op.val
    /\ RAM_read(prev.ram, op.arg) # op.val
    /\ \E o \in (0 .. 4095) \ {op.arg} : RAM_read(cpu.ram, o) # 0

(* C5: for every opcode word w that cycle dispatches, the address handed   *)
(* to the 1addr/2addr/Aaddr/Baddr handlers is w & 0x0FFF and the byte      *)
(* handed to the 3xkk/4xkk/6xkk/7xkk/Cxkk handlers is w & 0x00FF; so 1addr *)
(* leaves the program counter at w & 0x0FFF, Aaddr leaves I there, and     *)
(* 6xkk leaves Vx at w & 0x00FF.                                           *)
C5_ImmediateDecoding ==
    (op.name = "cycle") =>
        LET w == op.arg IN
        /\ (op_1(w) \in {1, 2, 10, 11}) => addr_arg(w) = Addr12(w)
        /\ (op_1(w) \in {3, 4, 6, 7, 12}) => byte_arg(w) = Byte8(w)
        /\ (op_1(w) = 1 /\ cpu.panic = NoPanic)
               => cpu.program_counter = Addr12(w)
        /\ (op_1(w) = 10 /\ cpu.panic = NoPanic) => cpu.i_reg = Addr12(w)
        /\ (op_1(w) = 6 /\ cpu.panic = NoPanic)
               => cpu.v_reg[op_2(w)] = Byte8(w)

\* every field of a CPU but its program counter is zero
AllButPcZero(c) ==
    /\ \A i \in 0 .. 15 : c.v_reg[i] = 0
    /\ \A i \in 0 .. 15 : c.stack[i] = 0
    /\ c.i_reg = 0
    /\ c.delay_timer = 0
    /\ c.sound_timer = 0
    /\ c.stack_pointer = 0

(* C6, as stated: a freshly constructed CPU has its program counter at     *)
(* 0x200, with registers, I, timers, stack and stack pointer all zero.     *)
C6_FreshPcIsLoadAddress ==
    (nops = 0) => (cpu.program_counter = 512 /\ AllButPcZero(cpu))

(* C6, amended: a freshly constructed CPU has its program counter at 0,    *)
(* like every other field: registers, I, timers, stack and stack pointer   *)
(* are all zero.                                                           *)
C6_FreshCpuAllZero ==
    (nops = 0) => (cpu.program_counter = 0 /\ AllButPcZero(cpu))

\* the CPU as CPU::new returned it, nothing executed yet
C6_Witness ==
    /\ nops = 0
    /\ op.name = "new"
    /\ cpu.panic = NoPanic
    /\ cpu.program_counter = 0
    /\ cpu.stack_pointer = 0

(* C7: an instruction that is neither a jump, a call, a return nor a taken *)
(* skip (6xkk, 7xkk, 8xy4, Aaddr) leaves the program counter at its        *)
(* previous value plus 2.                                                  *)
C7_StepAdvancesPc ==
    (/\ op.name = "cycle"
     /\ cpu.panic = NoPanic
     /\ \/ op_1(op.arg) \in {6, 7, 10}
        \/ op_1(op.arg) = 8 /\ op_4(op.arg) = 4)
        => cpu.program_counter = prev.program_counter + 2

(* C8, as stated: in every state reachable from the initial state by any   *)
(* sequence of opcodes the program counter is even.                        *)
C8_PcAlwaysEven == cpu.program_counter % 2 = 0

(* C8, amended: in every state reachable from the initial state by a       *)
(* sequence of opcodes in which no 1addr or 2addr was handed an odd        *)
(* address and no Baddr an odd sum addr + V0, the program counter is even  *)
(* (skips add exactly 2, returns restore a stacked program counter, every  *)
(* other opcode leaves it alone).                                          *)
C8_PcEvenWithoutOddTarget == (~odd_target) => cpu.program_counter % 2 = 0

\* a skip was taken from a nonzero program counter a jump had set
C8_Witness ==
    /\ ~odd_target
    /\ op.name = "cycle"
    /\ op_1(op.arg) \in {3, 4, 5, 9}
    /\ prev.program_counter > 0
    /\ cpu.program_counter = prev.program_counter + 2

(* C9: 7xkk, for every x, Vx and kk, completes without failure and sets Vx *)
(* to (Vx + kk) mod 256, leaving every other register unchanged.           *)
C9_AddImmediateWraps ==
    IsInstr(op, 7) =>
        LET x  == op_2(op.arg)
            kk == Byte8(op.arg)
        IN  /\ cpu.panic = NoPanic
            /\ cpu.v_reg[x] = (prev.v_reg[x] + kk) % 256
            /\ \A i \in (0 .. 15) \ {x} : cpu.v_reg[i] = prev.v_reg[i]

(* C10: 8xy4, for all x, y with x # F and all register values, leaves      *)
(* Vx = (Vx_old + Vy_old) mod 256 and VF = 1 if Vx_old + Vy_old > 255,     *)
(* else VF = 0, whatever VF held before.                                   *)
C10_AddXYCarry ==
    (IsInstr(op, 8) /\ op_4(op.arg) = 4 /\ op_2(op.arg) # 15) =>
        LET x   == op_2(op.arg)
            y   == op_3(op.arg)
            sum == prev.v_reg[x] + prev.v_reg[y]
        IN  /\ cpu.panic = NoPanic
            /\ cpu.v_reg[x] = sum % 256
            /\ cpu.v_reg[15] = IF sum > 255 THEN 1 ELSE 0

\* an 8xy4 whose sum carried, over a VF that held neither 0 nor 1
C10_Witness ==
    /\ IsInstr(op, 8) /\ op_4(op.arg) = 4 /\ op_2(op.arg) # 15
    /\ prev.v_reg[op_2(op.arg)] + prev.v_reg[op_3(op.arg)] > 255
    /\ prev.v_reg[15] > 1
    /\ cpu.v_reg[15] = 1

---------------------------------------------------------------------------
(* Subtractions and shifts on drawn register files: one instruction each *)

SubOpcodes ==
    { Op8xyn(x, y, n) : x \in 0 .. N_VREGISTERS - 1,
                        y \in 0 .. N_VREGISTERS - 1, n \in {5, 7} }

NextSub ==
    \E opcode \in SubOpcodes :
        /\ nops = 0
        /\ CycleStep(opcode, 0)

SpecSub == InitAlu /\ [][NextSub]_vars

ShiftOpcodes ==
    { Op8xyn(x, y, n) : x \in 0 .. N_VREGISTERS - 1,
                        y \in {0, 1, 7, 15}, n \in {6, 14} }

NextShift ==
    \E opcode \in ShiftOpcodes :
        /\ nops = 0
        /\ CycleStep(opcode, 0)

SpecShift == InitAlu /\ [][NextShift]_vars

\* o is an executed 8xyn instruction with last nibble n
Is8xyn(o, n) == IsInstr(o, 8) /\ op_4(o.arg) = n

(* C11: 8xy5, for all x, y distinct from F and all register values,        *)
(* completes without failure with VF = 1 if Vx_old > Vy_old else 0 and     *)
(* Vx = (Vx_old - Vy_old) mod 256 (Vx = 5, Vy = 10 gives VF = 0, Vx = 251).*)
C11_SubXYWraps ==
    (Is8xyn(op, 5) /\ op_2(op.arg) # 15 /\ op_3(op.arg) # 15) =>
        LET x == op_2(op.arg)
            y == op_3(op.arg)
        IN  /\ cpu.panic = NoPanic
            /\ cpu.v_reg[15] = IF prev.v_reg[x] > prev.v_reg[y] THEN 1 ELSE 0
            /\ cpu.v_reg[x] = (prev.v_reg[x] - prev.v_reg[y]) % 256

(* C12: 8xy6, for every x # F and every Vx, leaves VF at the least         *)
(* significant bit Vx had and Vx at floor(Vx_old / 2); Vy plays no part:   *)
(* the register file after the instruction is the one before it with only *)
(* Vx and VF replaced, by values that depend on Vx_old alone.              *)
C12_ShiftRight ==
    (Is8xyn(op, 6) /\ op_2(op.arg) # 15) =>
        LET x == op_2(op.arg) IN
        /\ cpu.panic = NoPanic
        /\ cpu.v_reg[15] = prev.v_reg[x] % 2
        /\ cpu.v_reg[x] = prev.v_reg[x] \div 2
        /\ \A i \in (0 .. 15) \ {x, 15} : cpu.v_reg[i] = prev.v_reg[i]

\* an 8xy6 on an odd Vx, with a Vy that differs from Vx, over a VF that was not 1
C12_Witness ==
    /\ Is8xyn(op, 6) /\ op_2(op.arg) # 15
    /\ op_3(op.arg) \notin {op_2(op.arg), 15}
    /\ prev.v_reg[op_2(op.arg)] % 2 = 1
    /\ prev.v_reg[op_2(op.arg)] > 1
    /\ prev.v_reg[op_3(op.arg)] # prev.v_reg[op_2(op.arg)]
    /\ prev.v_reg[op_3(op.arg)] % 2 = 0
    /\ prev.v_reg[15] # 1
    /\ cpu.v_reg[15] = 1
    /\ cpu.v_reg[op_3(op.arg)] = prev.v_reg[op_3(op.arg)]

(* C20: 8xy5 and 8xy7 take both the flag and the difference from the       *)
(* register values held before the instruction, also when y = F: 8xF5      *)
(* with x # F gives Vx = (Vx_old - VF_old) mod 256, and 8xF7 gives         *)
(* Vx = (VF_old - Vx_old) mod 256.                                         *)
C20_FlagAsOperand ==
    /\ (Is8xyn(op, 5) /\ op_3(op.arg) = 15 /\ op_2(op.arg) # 15
            /\ cpu.panic = NoPanic)
           => cpu.v_reg[op_2(op.arg)]
                  = (prev.v_reg[op_2(op.arg)] - prev.v_reg[15]) % 256
    /\ (Is8xyn(op, 7) /\ op_3(op.arg) = 15 /\ op_2(op.arg) # 15
            /\ cpu.panic = NoPanic)
           => cpu.v_reg[op_2(op.arg)]
                  = (prev.v_reg[15] - prev.v_reg[op_2(op.arg)]) % 256

---------------------------------------------------------------------------
(* Decoding: every 16-bit word, executed once on a CPU whose registers and *)
(* I hold values the program can build (I = 0x300 by repeated Fx1E).       *)

DecodeRandomByte == 165

InitDecode ==
    /\ cpu = [CPU_new EXCEPT !.v_reg = DrawnRegisters(5, 250, 1), !.i_reg = 768]
    /\ overflow_checks \in BOOLEAN
    /\ op = NewOp
    /\ prev = cpu
    /\ nops = 0
    /\ ncalls = 0
    /\ odd_target = FALSE

NextDecode ==
    /\ nops = 0
    /\ \E opcode \in 0 .. U16 - 1 : CycleStep(opcode, DecodeRandomByte)

SpecDecode == InitDecode /\ [][NextDecode]_vars

\* the four hexadecimal digits of an instruction word, most significant first
Hex1(w) == w \div 4096
Hex2(w) == (w \div 256) % 16
Hex3(w) == (w \div 16) % 16
Hex4(w) == w % 16

\* the row of the instruction table a word matches, "none" when it matches no row
Pattern(w) ==
    CASE w = 224 -> "00E0"
      [] w = 238 -> "00EE"
      [] Hex1(w) = 1 -> "1addr"
      [] Hex1(w) = 2 -> "2addr"
      [] Hex1(w) = 3 -> "3xkk"
      [] Hex1(w) = 4 -> "4xkk"
      [] Hex1(w) = 5 /\ Hex4(w) = 0 -> "5xy0"
      [] Hex1(w) = 6 -> "6xkk"
      [] Hex1(w) = 7 -> "7xkk"
      [] Hex1(w) = 8 /\ Hex4(w) = 0 -> "8xy0"
      [] Hex1(w) = 8 /\ Hex4(w) = 1 -> "8xy1"
      [] Hex1(w) = 8 /\ Hex4(w) = 2 -> "8xy2"
      [] Hex1(w) = 8 /\ Hex4(w) = 3 -> "8xy3"
      [] Hex1(w) = 8 /\ Hex4(w) = 4 -> "8xy4"
      [] Hex1(w) = 8 /\ Hex4(w) = 5 -> "8xy5"
      [] Hex1(w) = 8 /\ Hex4(w) = 6 -> "8xy6"
      [] Hex1(w) = 8 /\ Hex4(w) = 7 -> "8xy7"
      [] Hex1(w) = 8 /\ Hex4(w) = 14 -> "8xyE"
      [] Hex1(w) = 9 /\ Hex4(w) = 0 -> "9xy0"
      [] Hex1(w) = 10 -> "Aaddr"
      [] Hex1(w) = 11 -> "Baddr"
      [] Hex1(w) = 12 -> "Cxkk"
      [] Hex1(w) = 13 -> "Dxyn"
      [] Hex1(w) = 14 /\ w % 256 = 158 -> "Ex9E"
      [] Hex1(w) = 14 /\ w % 256 = 161 -> "ExA1"
      [] Hex1(w) = 15 /\ w % 256 = 7 -> "Fx07"
      [] Hex1(w) = 15 /\ w % 256 = 10 -> "Fx0A"
      [] Hex1(w) = 15 /\ w % 256 = 21 -> "Fx15"
      [] Hex1(w) = 15 /\ w % 256 = 24 -> "Fx18"
      [] Hex1(w) = 15 /\ w % 256 = 30 -> "Fx1E"
      [] Hex1(w) = 15 /\ w % 256 = 41 -> "Fx29"
      [] Hex1(w) = 15 /\ w % 256 = 51 -> "Fx33"
      [] Hex1(w) = 15 /\ w % 256 = 85 -> "Fx55"
      [] Hex1(w) = 15 /\ w % 256 = 101 -> "Fx65"
      [] OTHER -> "none"

\* the handler of table row p applied to c, with the operands the decoder
\* hands over for word w
Handled(p, c, w, r_num) ==
    LET x == Hex2(w)
        y == Hex3(w)
    IN  CASE p = "00E0" -> c
          [] p = "00EE" -> ret_subroutine(c)
          [] p = "1addr" -> jmp_addr(c, addr_arg(w))
          [] p = "2addr" -> call_subroutine(c, addr_arg(w))
          [] p = "3xkk" -> skip_eq_value(c, x, byte_arg(w))
          [] p = "4xkk" -> skip_neq_value(c, x, byte_arg(w))
          [] p = "5xy0" -> skip_eq_xy(c, x, y)
          [] p = "6xkk" -> set_x_value(c, x, byte_arg(w))
          [] p = "7xkk" -> add_x_value(c, x, byte_arg(w))
          [] p = "8xy0" -> store_xy(c, x, y)
          [] p = "8xy1" -> or_xy(c, x, y)
          [] p = "8xy2" -> and_xy(c, x, y)
          [] p = "8xy3" -> xor_xy(c, x, y)
          [] p = "8xy4" -> add_xy(c, x, y)
          [] p = "8xy5" -> sub_xy(c, x, y)
          [] p = "8xy6" -> shr_x(c, x)
          [] p = "8xy7" -> subn_xy(c, x, y)
          [] p = "8xyE" -> shl_x(c, x)
          [] p = "9xy0" -> skip_neq_xy(c, x, y)
          [] p = "Aaddr" -> set_i(c, addr_arg(w))
          [] p = "Baddr" -> jmp_addr_offset(c, addr_arg(w))
          [] p = "Cxkk" -> rnd_and(c, x, byte_arg(w), r_num)
          [] p = "Dxyn" -> draw(c, x, y, Hex4(w))
          [] p = "Ex9E" -> skip_key_pressed(c, x)
          [] p = "ExA1" -> skip_key_not_pressed(c, x)
          [] p = "Fx07" -> read_delay_timer(c, x)
          [] p = "Fx0A" -> wait_keypress(c, x)
          [] p = "Fx15" -> set_delay_timer(c, x)
          [] p = "Fx18" -> set_sound_timer(c, x)
          [] p = "Fx1E" -> add_i(c, x)
          [] p = "Fx29" -> set_i_digit(c, x)
          [] p = "Fx33" -> store_bcd(c, x)
          [] p = "Fx55" -> store_registers(c, x)
          [] p = "Fx65" -> read_registers(c, x)

(* C13: every 16-bit word that matches no row of the instruction table     *)
(* ends in the fatal "unknown instruction" error and leaves every          *)
(* register, timer, stack entry, the stack pointer, the program counter    *)
(* and every memory byte as they were; every word that matches a row has   *)
(* exactly the effect of that row's handler, and is never reported unknown.*)
C13_UnknownOpcode ==
    op.name = "cycle" =>
        IF Pattern(op.arg) = "none"
        THEN /\ cpu.panic = UnknownInstruction
             /\ [cpu EXCEPT !.panic = NoPanic] = prev
        ELSE /\ cpu = Handled(Pattern(op.arg), prev, op.arg, op.val)
             /\ cpu.panic # UnknownInstruction

\* the unknown word 0x8128 ended in the decode error with the drawn registers intact
C13_Witness ==
    /\ op.name = "cycle" /\ op.arg = 33064
    /\ Pattern(op.arg) = "none"
    /\ cpu.panic = UnknownInstruction
    /\ cpu.v_reg[1] = 250 /\ cpu.i_reg = 768

(* C15: executing Fx0A is not a failure: the CPU stays resumable, and      *)
(* while no key press has been registered the program counter and every    *)
(* register are left as they were.                                         *)
C15_WaitKeySuspends ==
    (op.name = "cycle" /\ Pattern(op.arg) = "Fx0A") =>
        /\ cpu.panic = NoPanic
        /\ cpu.program_counter = prev.program_counter
        /\ cpu.v_reg = prev.v_reg

---------------------------------------------------------------------------
(* Register store and load, register overwrites and draws, from CPUs whose *)
(* registers and I hold values the program can build (I by repeated Fx1E). *)

MaxMemSteps == 3

OpFx55(x) == 61525 + 256 * x            \* 0xF055 | x << 8
OpFx65(x) == 61541 + 256 * x            \* 0xF065 | x << 8
Op6xkk(x, kk) == 24576 + 256 * x + kk   \* 0x6000 | x << 8 | kk
OpDxyn(x, y, n) == 53248 + 256 * x + 16 * y + n  \* 0xD000 | x << 8 | y << 4 | n

\* values of I: the first writable address, the last one that leaves room
\* for sixteen registers, and one that does not
IRegSample == {512, 4080, 4085}

MemOpcodes ==
    { OpFx55(x) : x \in {0, 2, 15} }
    \cup { OpFx65(x) : x \in {0, 2, 15} }
    \cup { Op6xkk(0, 9), Op6xkk(15, 3), OpDxyn(0, 1, 1) }

InitMem ==
    /\ \E v0 \in {0, 165}, v1 \in {7}, vf \in {250}, i \in IRegSample :
           cpu = [CPU_new EXCEPT !.v_reg = DrawnRegisters(v0, v1, vf),
                                 !.i_reg = i]
    /\ overflow_checks \in BOOLEAN
    /\ op = NewOp
    /\ prev = cpu
    /\ nops = 0
    /\ ncalls = 0
    /\ odd_target = FALSE

NextMem ==
    /\ nops < MaxMemSteps
    /\ \E opcode \in MemOpcodes : CycleStep(opcode, 0)

SpecMem == InitMem /\ [][NextMem]_vars

\* c after set_x_value (6xkk) has put a new value into every register
RECURSIVE OverwrittenFrom(_, _)
OverwrittenFrom(c, i) ==
    IF i >= N_VREGISTERS THEN c
    ELSE OverwrittenFrom(set_x_value(c, i, (i + 3) % 16), i + 1)

Overwritten(c) == OverwrittenFrom(c, 0)

\* I and x are in the range the claim speaks about
StoreRange(c, x) == 512 <= c.i_reg /\ c.i_reg + x <= 4095

\* s is c after Fx55: memory[I .. I+x] holds V0..Vx of c, nothing else changed
Stored(c, x, s) ==
    /\ s.panic = NoPanic
    /\ \A k \in 0 .. x : RAM_read(s.ram, c.i_reg + k) = c.v_reg[k]
    /\ \A a \in (DOMAIN s.ram \cup DOMAIN c.ram) \ (c.i_reg .. c.i_reg + x) :
           RAM_read(s.ram, a) = RAM_read(c.ram, a)
    /\ s.i_reg = c.i_reg
    /\ s = [c EXCEPT !.ram = s.ram]

\* s is c after Fx65: V0..Vx hold memory[I .. I+x], nothing else changed
Loaded(c, x, s) ==
    /\ s.panic = NoPanic
    /\ \A k \in 0 .. x : s.v_reg[k] = RAM_read(c.ram, c.i_reg + k)
    /\ \A j \in x + 1 .. 15 : s.v_reg[j] = c.v_reg[j]
    /\ s = [c EXCEPT !.v_reg = s.v_reg]

(* C14: for every x in 0..15 and every I with 0x200 <= I and               *)
(* I + x <= 0xFFF, Fx55 writes V0..Vx to memory[I .. I+x] and changes no   *)
(* other memory byte nor I; an Fx65 with the same x and I that follows,    *)
(* after the registers were overwritten, restores V0..Vx exactly and       *)
(* leaves the registers above x as they were before it.                    *)
C14_StoreLoadRoundTrip ==
    /\ (op.name = "cycle" /\ Pattern(op.arg) = "Fx55"
            /\ StoreRange(prev, Hex2(op.arg)))
           => Stored(prev, Hex2(op.arg), cpu)
    /\ (op.name = "cycle" /\ Pattern(op.arg) = "Fx65"
            /\ StoreRange(prev, Hex2(op.arg)))
           => Loaded(prev, Hex2(op.arg), cpu)
    /\ cpu.panic = NoPanic =>
           \A x \in 0 .. 15 :
               StoreRange(cpu, x) =>
                   LET s1 == cycle(cpu, OpFx55(x), 0)
                       s2 == Overwritten(s1)
                       s3 == cycle(s2, OpFx65(x), 0)
                   IN  /\ Stored(cpu, x, s1)
                       /\ s2.ram = s1.ram /\ s2.i_reg = s1.i_reg
                       /\ Loaded(s2, x, s3)
                       /\ \A k \in 0 .. x : s3.v_reg[k] = cpu.v_reg[k]

\* the third step was FF65 at I = 0x FF0: V0 had been stored as 165, then
\* overwritten with 9, and is 165 again; VF came back from memory[I + 15]
C14_Witness ==
    /\ nops = 3
    /\ op.name = "cycle" /\ op.arg = OpFx65(15)
    /\ cpu.panic = NoPanic
    /\ cpu.i_reg = 4080
    /\ prev.v_reg[0] = 9
    /\ cpu.v_reg[0] = 165
    /\ RAM_read(cpu.ram, 4080) = 165
    /\ RAM_read(cpu.ram, 4095) = 250
    /\ cpu.v_reg[15] = 250

\* o is an executed Dxy1 (a sprite of one row)
IsDraw1(o) == o.name = "cycle" /\ Pattern(o.arg) = "Dxyn" /\ Hex4(o.arg) = 1

(* C16: the first draw of a one-row sprite with a set bit, on the blank    *)
(* display, leaves VF = 0; the same draw executed again right after it     *)
(* leaves VF = 1 (every pixel it had set is turned off again).  Memory is  *)
(* blank at the start, so a sprite row with a set bit at I means the step  *)
(* before the first draw was the Fx55 that wrote it.                       *)
C16_DrawCollision ==
    [][ /\ (nops = 1 /\ ~IsDraw1(op) /\ IsDraw1(op')
               /\ RAM_read(cpu.ram, cpu.i_reg) # 0)
           => (cpu'.panic = NoPanic /\ cpu'.v_reg[15] = 0)
        /\ (nops = 2 /\ IsDraw1(op) /\ IsDraw1(op') /\ op'.arg = op.arg
               /\ RAM_read(cpu.ram, cpu.i_reg) # 0)
           => (cpu'.panic = NoPanic /\ cpu'.v_reg[15] = 1) ]_vars

---------------------------------------------------------------------------
(* Conditional skips on drawn register files: one instruction each *)

Op3xkk(x, kk) == 12288 + 256 * x + kk       \* 0x3000 | x << 8 | kk
Op4xkk(x, kk) == 16384 + 256 * x + kk       \* 0x4000 | x << 8 | kk
Op5xy0(x, y) == 20480 + 256 * x + 16 * y    \* 0x5000 | x << 8 | y << 4
Op9xy0(x, y) == 36864 + 256 * x + 16 * y    \* 0x9000 | x << 8 | y << 4

\* immediates of the skips: bytes the drawn registers hold, and one none holds
SkipBytes == {0, 5, 34, 255, 18}

SkipOpcodes ==
    { Op3xkk(x, kk) : x \in 0 .. N_VREGISTERS - 1, kk \in SkipBytes }
    \cup { Op4xkk(x, kk) : x \in 0 .. N_VREGISTERS - 1, kk \in SkipBytes }
    \cup { Op5xy0(x, y) : x \in 0 .. N_VREGISTERS - 1, y \in {0, 1, 2, 15} }
    \cup { Op9xy0(x, y) : x \in 0 .. N_VREGISTERS - 1, y \in {0, 1, 2, 15} }

NextSkip ==
    /\ nops = 0
    /\ \E opcode \in SkipOpcodes : CycleStep(opcode, 0)

SpecSkip == InitAlu /\ [][NextSkip]_vars

\* the last instruction moved the program counter by 2 if taken, not at all
\* otherwise, and changed nothing else
SkippedIff(taken) ==
    /\ cpu.program_counter = prev.program_counter + (IF taken THEN 2 ELSE 0)
    /\ cpu = [prev EXCEPT !.program_counter = cpu.program_counter]

(* C17: 3xkk adds exactly 2 to the program counter when Vx = kk and leaves *)
(* it unchanged when Vx # kk, and in both cases changes no register, I,    *)
(* timer, stack entry or stack pointer; 4xkk (Vx # kk), 5xy0 (Vx = Vy) and *)
(* 9xy0 (Vx # Vy) behave the same with their own conditions.               *)
C17_ConditionalSkip ==
    LET w == op.arg
        vx == prev.v_reg[Hex2(w)]
        vy == prev.v_reg[Hex3(w)]
    IN  /\ (op.name = "cycle" /\ Pattern(w) = "3xkk") => SkippedIff(vx = Byte8(w))
        /\ (op.name = "cycle" /\ Pattern(w) = "4xkk") => SkippedIff(vx # Byte8(w))
        /\ (op.name = "cycle" /\ Pattern(w) = "5xy0") => SkippedIff(vx = vy)
        /\ (op.name = "cycle" /\ Pattern(w) = "9xy0") => SkippedIff(vx # vy)

---------------------------------------------------------------------------
(* Fx1E on drawn register files and values of I that repeated Fx1E builds  *)
(* from 0 (each Fx1E adds a byte, so every 16-bit value is in reach).      *)

OpFx1E(x) == 61470 + 256 * x            \* 0xF01E | x << 8

LargeIRegSample == {0, 4090, 4095, 65530, 65535}

InitAddI ==
    /\ \E v0 \in ByteSample, v1 \in ByteSample, vf \in ByteSample,
          i \in LargeIRegSample :
           cpu = [CPU_new EXCEPT !.v_reg = DrawnRegisters(v0, v1, vf),
                                 !.i_reg = i]
    /\ overflow_checks \in BOOLEAN
    /\ op = NewOp
    /\ prev = cpu
    /\ nops = 0
    /\ ncalls = 0
    /\ odd_target = FALSE

NextAddI ==
    /\ nops = 0
    /\ \E x \in 0 .. N_VREGISTERS - 1 : CycleStep(OpFx1E(x), 0)

SpecAddI == InitAddI /\ [][NextAddI]_vars

(* C18: Fx1E, for every x and every value of I the program can reach,      *)
(* completes without failure and sets I to (I + Vx) mod 65536, without     *)
(* masking to 12 bits, and leaves every V register, VF included, as it was.*)
C18_AddIWraps ==
    (op.name = "cycle" /\ Pattern(op.arg) = "Fx1E") =>
        /\ cpu.panic = NoPanic
        /\ cpu.i_reg = (prev.i_reg + prev.v_reg[Hex2(op.arg)]) % 65536
        /\ cpu.v_reg = prev.v_reg

---------------------------------------------------------------------------
(* Nested calls and their returns *)

\* the target of the i-th call of a nest: even, and never that of the
\* call before it
NestTarget(i) == (2 * i) % 16

Op2addr(addr) == 8192 + addr            \* 0x2000 | addr

\* c after the calls number i .. k of a nest, the i-th one to NestTarget(i)
RECURSIVE Nested(_, _, _)
Nested(c, i, k) ==
    IF i > k \/ c.panic # NoPanic THEN c
    ELSE Nested(cycle(c, Op2addr(NestTarget(i)), 0), i + 1, k)

\* the program counter the i-th call of a nest started from c is made from
CallerPc(c, i) == IF i = 1 THEN c.program_counter ELSE NestTarget(i - 1)

\* c after j returns
RECURSIVE Returned(_, _)
Returned(c, j) ==
    IF j = 0 \/ c.panic # NoPanic THEN c
    ELSE Returned(cycle(c, 238, 0), j - 1)

\* from c, nests of up to depth calls return in the reverse order of the calls
ReturnsInLifoOrder(c, depth) ==
    \A k \in 1 .. depth :
        LET nest == Nested(c, 1, k) IN
        /\ nest.panic = NoPanic
        /\ \A j \in 1 .. k :
               LET r == Returned(nest, j) IN
               /\ r.panic = NoPanic
               /\ r.program_counter = CallerPc(c, k - j + 1)
               /\ r.stack_pointer = nest.stack_pointer - j
        /\ Returned(nest, k).stack_pointer = c.stack_pointer

(* C19: after k nested calls (1 <= k <= the stack's capacity of 16 less    *)
(* the calls already outstanding) made from program counters p1 .. pk, the *)
(* next k returns set the program counter to pk, ..., p1 in that order and *)
(* bring the stack pointer back to its value before the first call; an     *)
(* instruction other than 2addr and 00EE never changes the stack or the    *)
(* stack pointer.                                                          *)
C19_NestedCallsLifo ==
    /\ cpu.panic = NoPanic =>
           ReturnsInLifoOrder(cpu, STACK_SIZE - cpu.stack_pointer)
    /\ (op.name = "cycle" /\ Pattern(op.arg) \notin {"2addr", "00EE"}) =>
           /\ cpu.stack = prev.stack
           /\ cpu.stack_pointer = prev.stack_pointer

============================================================================
